---- MODULE Spec2Model ----
(***************************************************************************)
(* Model of the useConversation hook (src/src/hooks/conversation.ts).      *)
(*                                                                         *)
(* React state is modelled by one variable per useState cell.  A closure   *)
(* created during a render (stopConversation captured by socket.onclose,   *)
(* recordingDataListener captured by addEventListener, the audioQueue      *)
(* array captured by source.onended) keeps the values of the render that   *)
(* created it; those captured values are stored with the object that       *)
(* holds the closure.  Every action is one browser task: the handler, the  *)
(* re-render it causes and the effects of that re-render (Commit).         *)
(***************************************************************************)
EXTENDS Bags, FiniteSets, Integers, Sequences, TLC

VARIABLES
  status,          \* useState status: idle | connecting | connected | error
  error,           \* useState error: "none" (undefined) or the Error message
  active,          \* useState active
  socket,          \* useState socket: 0 (undefined) or a socket id
  recorder,        \* useState recorder: 0 (undefined) or a recorder id
  audioQueue,      \* useState audioQueue: inbound chunk ids awaiting playback
  currentSpeaker,  \* useState currentSpeaker: none | user | agent
  processing,      \* useState processing
  transcripts,     \* useState transcripts: sequence of [sender, text]
  ws,              \* the WebSocket objects created by startConversation
  call,            \* per startConversation invocation: position and closure
  rec,             \* the MediaRecorder objects: state and attached listeners
  enc,             \* blobToBase64 promises not yet settled (bag)
  tasks,           \* playbacks started by the playback effect
  nSock,           \* number of WebSockets created so far
  nIn,             \* number of inbound websocket_audio messages so far
  nCap,            \* number of timeslice chunks emitted by recorders so far
  nToggle,         \* number of toggleActive() calls so far
  played,          \* history: chunk ids in the order source.start(0) ran
  flushed,         \* history: chunk ids discarded by setAudioQueue([])
  frags,           \* history: transcript fragments in arrival order
  thrown,          \* the last handler ended with an uncaught exception
  useRecorder,     \* hook argument useRecorder
  browserOK,       \* isSafari || isChrome
  config,          \* hook argument config: the set of keys it has
  isSafari,        \* isSafari of react-device-detect
  transcriberConfig \* the object config.transcriberConfig: type, downsampling

vars == <<status, error, active, socket, recorder, audioQueue, currentSpeaker,
          processing, transcripts, ws, call, rec, enc, tasks, nSock, nIn, nCap,
          nToggle, played, flushed, frags, thrown, useRecorder,
          browserOK, config, isSafari, transcriberConfig>>

\* ---- bounds ----
MaxSock == 2
MaxSess == 1
MaxIn == 3
MaxCap == 2
MaxToggle == 2
MaxFrag == 3

SockIds == 1..MaxSock
NoError == "none"
Senders == {"user", "agent"}
Texts == {"", "hi", "there"}

FullKeys == {"transcriberConfig", "agentConfig", "synthesizerConfig", "vocodeConfig"}
ConfigChoices == {FullKeys, {"backendUrl"}}
\* every subset of the four keys, with and without backendUrl
AllConfigs == {k \cup b : k \in SUBSET FullKeys, b \in {{}, {"backendUrl"}}}
\* getBackendUrl finds a URL
ValidConfig == "backendUrl" \in config \/ "vocodeConfig" \in config

\* the optional field downsampling is absent
NoDownsampling == 0
TranscriberTypes == {"transcriber_deepgram", "transcriber_assembly_ai"}
TranscriberConfigs == [type : TranscriberTypes,
                       downsampling : {NoDownsampling, 2, 4}]
DefaultTranscriberConfig == [type |-> "transcriber_deepgram",
                             downsampling |-> NoDownsampling]

\* the chunk a recorder hands to its listeners when stop() flushes it
FinalChunk == 0

Range(f) == {f[i] : i \in DOMAIN f}

\* ---- WebSocket object ----
NewSocket == [readyState |-> "CONNECTING", sent |-> <<>>, everOpen |-> FALSE,
              gotReady |-> FALSE]
NoSocket == [readyState |-> "NONE", sent |-> <<>>, everOpen |-> FALSE,
             gotReady |-> FALSE]

\* WebSocket.send: throws in CONNECTING, queues the message in OPEN, discards
\* it in CLOSING and CLOSED
SendThrows(w, s) == w[s].readyState = "CONNECTING"
Send(w, s, msg) ==
  IF w[s].readyState = "OPEN" THEN [w EXCEPT ![s].sent = Append(@, msg)] ELSE w
\* WebSocket.close
Close(w, s) ==
  IF w[s].readyState \in {"CONNECTING", "OPEN"}
  THEN [w EXCEPT ![s].readyState = "CLOSING"] ELSE w

StartTypes == {"websocket_start", "websocket_audio_config_start"}

\* the channel is connecting or open
Live(s) == ws[s].readyState \in {"CONNECTING", "OPEN"}

\* ---- MediaRecorder object ----
NoListeners == [l \in SockIds |-> 0]
NoRecorder == [state |-> "none", listeners |-> NoListeners]

\* dispatch of one dataavailable event: every attached recordingDataListener
\* starts one blobToBase64 of the chunk; the listener sends on the socket of
\* the render that created it
Dispatch(r, chunk) ==
  LET ls == {l \in SockIds : rec[r].listeners[l] > 0}
  IN [e \in {[sock |-> l, chunk |-> chunk] : l \in ls} |-> rec[r].listeners[e.sock]]

\* ---- messages ----
\* mutant of StartMessageType: one of the four keys is enough
StartMessageType_Some ==
  IF FullKeys \cap config # {} THEN "websocket_start"
  ELSE "websocket_audio_config_start"
\* the four keys are tested with every(key => key in config)
StartMessageType ==
  IF FullKeys \subseteq config THEN "websocket_start"
  ELSE "websocket_audio_config_start"
\* mutant of TranscriberConfigSent: the transcriber's type is not tested
TranscriberConfigSent_AnyType(tc) ==
  IF isSafari THEN [tc EXCEPT !.downsampling = 2] ELSE tc
\* getStartMessage: both Object.assign calls return the object
\* config.transcriberConfig itself, which the Safari rule has written to
TranscriberConfigSent(tc) ==
  IF isSafari /\ tc.type = "transcriber_deepgram"
  THEN [tc EXCEPT !.downsampling = 2] ELSE tc
\* config.transcriberConfig once the start message was built
TranscriberConfigAfter ==
  IF StartMessageType = "websocket_start"
  THEN TranscriberConfigSent(transcriberConfig) ELSE transcriberConfig
\* the start message; of its fields data keeps transcriberConfig.downsampling
\* of websocket_start
StartMessage ==
  [type |-> StartMessageType,
   data |-> IF StartMessageType = "websocket_start"
            THEN TranscriberConfigSent(transcriberConfig).downsampling
            ELSE -1]
StopMessage == [type |-> "websocket_stop", data |-> -1]
AudioMessage(chunk) == [type |-> "websocket_audio", data |-> chunk]

\* ---- stopConversation(error), run with the recorder and socket of the
\* render that created the closure (cr, cs) ----
StopStatus(err) == IF err # NoError THEN "error" ELSE "idle"
StopError(err) == IF err # NoError THEN err ELSE error
StopRuns(cr, cs) == cr # 0 /\ cs # 0
StopThrows(w, cr, cs) == StopRuns(cr, cs) /\ SendThrows(w, cs)
\* socket.send(stopMessage), then socket.close()
StopWs(w, cr, cs) ==
  IF ~StopRuns(cr, cs) \/ SendThrows(w, cs) THEN w
  ELSE Close(Send(w, cs, StopMessage), cs)
StopRec(cr, cs) ==
  IF StopRuns(cr, cs) THEN [rec EXCEPT ![cr].state = "inactive"] ELSE rec
StopEnc(cr, cs) ==
  IF StopRuns(cr, cs) /\ rec[cr].state = "recording"
  THEN enc (+) Dispatch(cr, FinalChunk) ELSE enc

\* ---- effects ----
\* the listener effect runs when one of its dependencies changed
ListenerDepsChanged(st, rc, so, ac) ==
  <<rc, so, st, ac>> # <<recorder, socket, status, active>>
\* addEventListener of the new render's recordingDataListener; the
\* removeEventListener branch names a function that was never added
ListenerEffect(st, rc, so, ac, rcs) ==
  IF ListenerDepsChanged(st, rc, so, ac) /\ rc # 0 /\ so # 0
     /\ st = "connected" /\ ac
  THEN [rcs EXCEPT ![rc].listeners[so] = @ + 1]
  ELSE rcs

\* mutants of CanDequeue: the busy flag, or the active flag, is not tested
CanDequeue_NoBusy(pr, q, ac) == Len(q) > 0 /\ ac
CanDequeue_IgnoreActive(pr, q, ac) == ~pr /\ Len(q) > 0
CanDequeue(pr, q, ac) == ~pr /\ Len(q) > 0 /\ ac
\* audioQueue.shift() and the playback it starts; the closure of the
\* playback keeps the array it shifted
Shift(q) == Tail(q)
NewTask(q) == [chunk |-> Head(q), stage |-> "decoding", cq |-> Shift(q)]

\* the re-render after a handler and the effects it runs
Commit(st, rc, so, ac, q, pr, tk, rcs) ==
  /\ status' = st
  /\ recorder' = rc
  /\ socket' = so
  /\ active' = ac
  /\ rec' = ListenerEffect(st, rc, so, ac, rcs)
  /\ IF CanDequeue(pr, q, ac)
     THEN /\ processing' = TRUE
          /\ audioQueue' = Shift(q)
          /\ tasks' = tk \cup {NewTask(q)}
     ELSE /\ processing' = pr
          /\ audioQueue' = q
          /\ tasks' = tk

\* the hook's state after its first render
InitState ==
  /\ status = "idle"
  /\ error = NoError
  /\ active = TRUE
  /\ socket = 0
  /\ recorder = 0
  /\ audioQueue = <<>>
  /\ currentSpeaker = "none"
  /\ processing = FALSE
  /\ transcripts = <<>>
  /\ ws = [s \in SockIds |-> NoSocket]
  /\ call = [s \in SockIds |-> [pc |-> "none", err |-> FALSE, cRec |-> 0, cSock |-> 0]]
  /\ rec = [r \in SockIds |-> NoRecorder]
  /\ enc = EmptyBag
  /\ tasks = {}
  /\ nSock = 0
  /\ nIn = 0
  /\ nCap = 0
  /\ nToggle = 0
  /\ played = <<>>
  /\ flushed = {}
  /\ frags = <<>>
  /\ thrown = FALSE

\* the hook's arguments and the browser: a full-service or a self-hosted
\* config on a browser other than Safari
Init ==
  /\ InitState
  /\ useRecorder \in BOOLEAN
  /\ browserOK \in BOOLEAN
  /\ config \in ConfigChoices
  /\ isSafari = FALSE
  /\ transcriberConfig = DefaultTranscriberConfig

\* the state every stopConversation call writes, then the re-render; after
\* says whether the caller throws once stopConversation returned
StopCommit(err, cr, cs, w, pc, after) ==
  /\ error' = StopError(err)
  /\ currentSpeaker' = "none"
  /\ flushed' = flushed \cup Range(audioQueue)
  /\ ws' = StopWs(w, cr, cs)
  /\ enc' = StopEnc(cr, cs)
  /\ thrown' = (after \/ StopThrows(w, cr, cs))
  /\ call' = pc
  /\ Commit(StopStatus(err), recorder, socket, active, <<>>, processing,
            tasks, StopRec(cr, cs))

\* stop(): stopConversation of the current render, without an error
Stop ==
  /\ StopCommit(NoError, recorder, socket, ws, call, FALSE)
  /\ UNCHANGED <<transcripts, nSock, nIn, nCap, nToggle, played,
                 frags, useRecorder, browserOK, config, isSafari, transcriberConfig>>

\* start() on a browser that is neither Safari nor Chrome
StartUnsupported ==
  /\ ~browserOK
  /\ StopCommit("Unsupported browser", recorder, socket, ws, call, FALSE)
  /\ UNCHANGED <<transcripts, nSock, nIn, nCap, nToggle, played,
                 frags, useRecorder, browserOK, config, isSafari, transcriberConfig>>

\* start() with a config that has neither backendUrl nor vocodeConfig:
\* getBackendUrl throws after setStatus("connecting")
StartInvalidConfig ==
  /\ browserOK
  /\ ~ValidConfig
  /\ thrown' = TRUE
  /\ Commit("connecting", recorder, socket, active, audioQueue, processing,
            tasks, rec)
  /\ UNCHANGED <<error, currentSpeaker, transcripts, ws, call, enc, nSock, nIn,
                 nCap, nToggle, played, flushed, frags, useRecorder, browserOK,
                 config, isSafari, transcriberConfig>>

\* start() up to the wait for the socket: the WebSocket is created with its
\* handlers, which keep stopConversation of the render start() was called in
StartCall ==
  /\ browserOK
  /\ ValidConfig
  /\ nSock < MaxSock
  /\ LET s == nSock + 1 IN
       /\ nSock' = s
       /\ error' = NoError
       /\ ws' = [ws EXCEPT ![s] = NewSocket]
       /\ call' = [call EXCEPT ![s] = [pc |-> "waitOpen", err |-> FALSE,
                                        cRec |-> recorder, cSock |-> socket]]
       /\ Commit("connecting", recorder, s, active, audioQueue, processing,
                 tasks, rec)
  /\ thrown' = FALSE
  /\ UNCHANGED <<currentSpeaker, transcripts, enc, nIn, nCap, nToggle,
                 played, flushed, frags, useRecorder, browserOK, config, isSafari, transcriberConfig>>

\* ---- the WebSocket's events ----
\* the connection is established: readyState becomes OPEN
SockOpen(s) ==
  /\ ws[s].readyState = "CONNECTING"
  /\ ~call[s].err
  /\ ws' = [ws EXCEPT ![s].readyState = "OPEN", ![s].everOpen = TRUE]
  /\ thrown' = FALSE
  /\ UNCHANGED <<status, error, active, socket, recorder, audioQueue,
                 currentSpeaker, processing, transcripts, call, rec, enc, tasks,
                 nSock, nIn, nCap, nToggle, played, flushed, frags,
                 useRecorder, browserOK, config, isSafari, transcriberConfig>>

\* socket.onerror: assigns the local variable error of that start() call
OnError(s) ==
  /\ ws[s].readyState \in {"CONNECTING", "OPEN", "CLOSING"}
  /\ ~call[s].err
  /\ call' = [call EXCEPT ![s].err = TRUE]
  /\ thrown' = FALSE
  /\ Commit(status, recorder, socket, active, audioQueue, processing, tasks, rec)
  /\ UNCHANGED <<error, currentSpeaker, transcripts, ws, enc, nSock, nIn, nCap,
                 nToggle, played, flushed, frags, useRecorder,
                 browserOK, config, isSafari, transcriberConfig>>

\* mutant of CloseArg: the close handler passes no error
CloseArg_Dropped(s) == NoError
\* the error the close handler passes to stopConversation
CloseArg(s) == IF call[s].err THEN "See console for error details" ELSE NoError

\* socket.onclose: stopConversation(error) of the render start() was called in
OnClose(s) ==
  /\ \/ ws[s].readyState \in {"OPEN", "CLOSING"}
     \/ ws[s].readyState = "CONNECTING" /\ call[s].err
  /\ StopCommit(CloseArg(s), call[s].cRec, call[s].cSock,
                [ws EXCEPT ![s].readyState = "CLOSED"], call, FALSE)
  /\ UNCHANGED <<transcripts, nSock, nIn, nCap, nToggle, played,
                 frags, useRecorder, browserOK, config, isSafari, transcriberConfig>>

\* socket.onmessage, websocket_ready (the server sends it once per channel)
OnReady(s) ==
  /\ ws[s].readyState = "OPEN"
  /\ ~ws[s].gotReady
  /\ ws' = [ws EXCEPT ![s].gotReady = TRUE]
  /\ thrown' = FALSE
  /\ Commit("connected", recorder, socket, active, audioQueue, processing,
            tasks, rec)
  /\ UNCHANGED <<error, currentSpeaker, transcripts, call, enc, nSock, nIn,
                 nCap, nToggle, played, flushed, frags, useRecorder, browserOK,
                 config, isSafari, transcriberConfig>>

\* socket.onmessage, websocket_audio: the chunk is appended to a new array
OnAudio(s) ==
  /\ ws[s].readyState = "OPEN"
  /\ nIn < MaxIn
  /\ nIn' = nIn + 1
  /\ thrown' = FALSE
  /\ Commit(status, recorder, socket, active, Append(audioQueue, nIn + 1),
            processing, tasks, rec)
  /\ UNCHANGED <<error, currentSpeaker, transcripts, ws, call, enc, nSock, nCap,
                 nToggle, played, flushed, frags, useRecorder,
                 browserOK, config, isSafari, transcriberConfig>>

\* mutant of MergeFragment: the popped entry of another sender is not pushed
\* back
MergeFragment_DropLast(prev, msg) ==
  LET n == Len(prev)
      init == IF n = 0 THEN <<>> ELSE SubSeq(prev, 1, n - 1)
  IN IF n > 0 /\ prev[n].sender = msg.sender
     THEN Append(init, [sender |-> msg.sender,
                        text |-> prev[n].text \o " " \o msg.text])
     ELSE Append(init, [sender |-> msg.sender, text |-> msg.text])

\* the updater of setTranscripts: pop the last entry, then push the merged
\* entry, or push the last entry back and the new one after it
MergeFragment(prev, msg) ==
  LET n == Len(prev)
      init == IF n = 0 THEN <<>> ELSE SubSeq(prev, 1, n - 1)
  IN IF n > 0 /\ prev[n].sender = msg.sender
     THEN Append(init, [sender |-> msg.sender,
                        text |-> prev[n].text \o " " \o msg.text])
     ELSE Append(IF n > 0 THEN Append(init, prev[n]) ELSE init,
                 [sender |-> msg.sender, text |-> msg.text])

\* socket.onmessage, websocket_transcript
OnTranscript(s, msg) ==
  /\ ws[s].readyState = "OPEN"
  /\ Len(frags) < MaxFrag
  /\ frags' = Append(frags, msg)
  /\ transcripts' = MergeFragment(transcripts, msg)
  /\ thrown' = FALSE
  /\ Commit(status, recorder, socket, active, audioQueue, processing, tasks, rec)
  /\ UNCHANGED <<error, currentSpeaker, ws, call, enc, nSock, nIn, nCap, nToggle, played, flushed, useRecorder, browserOK, config, isSafari,
                 transcriberConfig>>

\* ---- startConversation after the socket was created ----
\* mutant of PollReady: start() does not wait for the socket
PollReady_NoWait(s) == TRUE
\* the poll of the wait loop
PollReady(s) == ws[s].readyState = "OPEN"

\* the 100 ms poll sees the socket open; without a recorder start() goes on
\* to send the start message and returns, with one it awaits getUserMedia
PollOpen(s) ==
  /\ call[s].pc = "waitOpen"
  /\ PollReady(s)
  /\ IF useRecorder
     THEN /\ call' = [call EXCEPT ![s].pc = "mic"]
          /\ ws' = ws
          /\ thrown' = FALSE
          /\ transcriberConfig' = transcriberConfig
     ELSE /\ call' = [call EXCEPT ![s].pc =
                        IF SendThrows(ws, s) THEN "aborted" ELSE "done"]
          /\ ws' = Send(ws, s, StartMessage)
          /\ thrown' = SendThrows(ws, s)
          /\ transcriberConfig' = TranscriberConfigAfter
  /\ Commit(status, recorder, socket, active, audioQueue, processing, tasks, rec)
  /\ UNCHANGED <<error, currentSpeaker, transcripts, enc, nSock, nIn, nCap,
                 nToggle, played, flushed, frags, useRecorder,
                 browserOK, config, isSafari>>

\* the recorder start() uses: the one of its render, or a new one
RecorderToUse(s) == IF call[s].cRec # 0 THEN call[s].cRec ELSE s

\* getUserMedia resolved: the start message is sent, then the recorder is
\* resumed, created or started
MicGranted(s) ==
  /\ call[s].pc = "mic"
  /\ IF SendThrows(ws, s)
     THEN /\ call' = [call EXCEPT ![s].pc = "aborted"]
          /\ thrown' = TRUE
          /\ ws' = ws
          /\ Commit(status, recorder, socket, active, audioQueue, processing,
                    tasks, rec)
     ELSE /\ call' = [call EXCEPT ![s].pc = "done"]
          /\ thrown' = FALSE
          /\ ws' = Send(ws, s, StartMessage)
          /\ Commit(status, IF call[s].cRec = 0 THEN s ELSE recorder, socket,
                    active, audioQueue, processing, tasks,
                    [rec EXCEPT ![RecorderToUse(s)].state = "recording"])
  /\ transcriberConfig' = TranscriberConfigAfter
  /\ UNCHANGED <<error, currentSpeaker, transcripts, enc, nSock, nIn, nCap,
                 nToggle, played, flushed, frags, useRecorder,
                 browserOK, config, isSafari>>

\* getUserMedia rejected: stopConversation(error) of the render start() was
\* called in, then audioStream.getAudioTracks() on undefined throws
MicDenied(s) ==
  /\ call[s].pc = "mic"
  /\ StopCommit("Microphone access denied", call[s].cRec, call[s].cSock, ws,
                [call EXCEPT ![s].pc = "aborted"], TRUE)
  /\ UNCHANGED <<transcripts, nSock, nIn, nCap, nToggle, played,
                 frags, useRecorder, browserOK, config, isSafari, transcriberConfig>>

\* ---- toggleActive ----
ToggleActive ==
  /\ nToggle < MaxToggle
  /\ nToggle' = nToggle + 1
  /\ thrown' = FALSE
  /\ Commit(status, recorder, socket, ~active, audioQueue, processing, tasks, rec)
  /\ UNCHANGED <<error, currentSpeaker, transcripts, ws, call, enc, nSock, nIn,
                 nCap, played, flushed, frags, useRecorder, browserOK,
                 config, isSafari, transcriberConfig>>

\* ---- recording ----
\* a recording recorder emits the chunk of one time slice
RecorderData(r) ==
  /\ rec[r].state = "recording"
  /\ nCap < MaxCap
  /\ nCap' = nCap + 1
  /\ enc' = enc (+) Dispatch(r, nCap + 1)
  /\ thrown' = FALSE
  /\ UNCHANGED <<status, error, active, socket, recorder, audioQueue,
                 currentSpeaker, processing, transcripts, ws, call, rec, tasks,
                 nSock, nIn, nToggle, played, flushed, frags,
                 useRecorder, browserOK, config, isSafari, transcriberConfig>>

\* blobToBase64 resolved: the listener sends if its socket is open
EncodeDone(e, ok) ==
  /\ e \in BagToSet(enc)
  /\ enc' = enc (-) SetToBag({e})
  /\ ws' = IF ok THEN Send(ws, e.sock, AudioMessage(e.chunk)) ELSE ws
  /\ thrown' = FALSE
  /\ UNCHANGED <<status, error, active, socket, recorder, audioQueue,
                 currentSpeaker, processing, transcripts, call, rec, tasks,
                 nSock, nIn, nCap, nToggle, played, flushed, frags,
                 useRecorder, browserOK, config, isSafari, transcriberConfig>>

\* ---- playback ----
\* decodeAudioData succeeded: playArrayBuffer's callback starts the source
DecodeOk(t) ==
  /\ t \in tasks
  /\ t.stage = "decoding"
  /\ currentSpeaker' = "agent"
  /\ played' = Append(played, t.chunk)
  /\ thrown' = FALSE
  /\ Commit(status, recorder, socket, active, audioQueue, processing,
            (tasks \ {t}) \cup {[t EXCEPT !.stage = "playing"]}, rec)
  /\ UNCHANGED <<error, transcripts, ws, call, enc, nSock, nIn, nCap, nToggle, flushed, frags, useRecorder, browserOK, config, isSafari, transcriberConfig>>

\* decodeAudioData failed: no error callback was given
DecodeFail(t) ==
  /\ t \in tasks
  /\ t.stage = "decoding"
  /\ thrown' = FALSE
  /\ Commit(status, recorder, socket, active, audioQueue, processing,
            (tasks \ {t}) \cup {[t EXCEPT !.stage = "failed"]}, rec)
  /\ UNCHANGED <<error, currentSpeaker, transcripts, ws, call, enc, nSock, nIn,
                 nCap, nToggle, played, flushed, frags, useRecorder,
                 browserOK, config, isSafari, transcriberConfig>>

\* what source.onended writes to currentSpeaker
EndedSpeaker(t) == IF Len(t.cq) <= 0 THEN "user" ELSE currentSpeaker

\* source.onended
PlaybackEnded(t) ==
  /\ t \in tasks
  /\ t.stage = "playing"
  /\ currentSpeaker' = EndedSpeaker(t)
  /\ thrown' = FALSE
  /\ Commit(status, recorder, socket, active, audioQueue, FALSE, tasks \ {t}, rec)
  /\ UNCHANGED <<error, transcripts, ws, call, enc, nSock, nIn, nCap, nToggle, played, flushed, frags, useRecorder, browserOK, config, isSafari, transcriberConfig>>

Fragments == [sender : Senders, text : Texts]

Next ==
  \/ StartCall
  \/ StartUnsupported
  \/ Stop
  \/ ToggleActive
  \/ \E s \in SockIds : SockOpen(s)
  \/ \E s \in SockIds : OnError(s)
  \/ \E s \in SockIds : OnClose(s)
  \/ \E s \in SockIds : OnReady(s)
  \/ \E s \in SockIds : OnAudio(s)
  \/ \E s \in SockIds, m \in Fragments : OnTranscript(s, m)
  \/ \E s \in SockIds : PollOpen(s)
  \/ \E s \in SockIds : MicGranted(s)
  \/ \E s \in SockIds : MicDenied(s)
  \/ \E r \in SockIds : RecorderData(r)
  \/ \E e \in BagToSet(enc), ok \in BOOLEAN : EncodeDone(e, ok)
  \/ \E t \in tasks : DecodeOk(t)
  \/ \E t \in tasks : DecodeFail(t)
  \/ \E t \in tasks : PlaybackEnded(t)

Spec == Init /\ [][Next]_vars

\* ---- the session's lifecycle and capture, for a caller that calls start()
\* only while no channel is connecting or open: no inbound audio or
\* transcript, playback stays enabled ----
StartAlone == (\A s \in SockIds : ~Live(s)) /\ StartCall

NextSession ==
  \/ StartAlone
  \/ StartUnsupported
  \/ Stop
  \/ \E s \in SockIds : SockOpen(s)
  \/ \E s \in SockIds : OnError(s)
  \/ \E s \in SockIds : OnClose(s)
  \/ \E s \in SockIds : OnReady(s)
  \/ \E s \in SockIds : PollOpen(s)
  \/ \E s \in SockIds : MicGranted(s)
  \/ \E s \in SockIds : MicDenied(s)
  \/ \E r \in SockIds : RecorderData(r)
  \/ \E e \in BagToSet(enc), ok \in BOOLEAN : EncodeDone(e, ok)

SpecSession == Init /\ [][NextSession]_vars

\* ---- the channel and the status alone: no captured audio either ----
NextChannel ==
  \/ StartCall
  \/ StartUnsupported
  \/ Stop
  \/ \E s \in SockIds : SockOpen(s)
  \/ \E s \in SockIds : OnError(s)
  \/ \E s \in SockIds : OnClose(s)
  \/ \E s \in SockIds : OnReady(s)
  \/ \E s \in SockIds : PollOpen(s)
  \/ \E s \in SockIds : MicGranted(s)
  \/ \E s \in SockIds : MicDenied(s)

SpecChannel == Init /\ [][NextChannel]_vars

\* ---- the same, with at most MaxSess calls of start() ----
StartSession == nSock < MaxSess /\ StartCall

NextHandshake ==
  \/ StartSession
  \/ StartUnsupported
  \/ Stop
  \/ \E s \in SockIds : SockOpen(s)
  \/ \E s \in SockIds : OnError(s)
  \/ \E s \in SockIds : OnClose(s)
  \/ \E s \in SockIds : OnReady(s)
  \/ \E s \in SockIds : PollOpen(s)
  \/ \E s \in SockIds : MicGranted(s)
  \/ \E s \in SockIds : MicDenied(s)

SpecHandshake == Init /\ [][NextHandshake]_vars

\* ---- inbound audio and its playback ----
NextPlayback ==
  \/ StartCall
  \/ Stop
  \/ ToggleActive
  \/ \E s \in SockIds : SockOpen(s)
  \/ \E s \in SockIds : OnClose(s)
  \/ \E s \in SockIds : OnAudio(s)
  \/ \E t \in tasks : DecodeOk(t)
  \/ \E t \in tasks : DecodeFail(t)
  \/ \E t \in tasks : PlaybackEnded(t)

InitPlayback == Init /\ browserOK /\ config = FullKeys

SpecPlayback == InitPlayback /\ [][NextPlayback]_vars

\* the same, where a started decodeAudioData settles and a started source
\* ends
SpecPlaybackFair ==
  /\ SpecPlayback
  /\ WF_vars(\E t \in tasks : DecodeOk(t) \/ DecodeFail(t))
  /\ WF_vars(\E t \in tasks : PlaybackEnded(t))

\* ---- inbound transcript fragments ----
NextTranscript ==
  \/ StartCall
  \/ Stop
  \/ \E s \in SockIds : SockOpen(s)
  \/ \E s \in SockIds : OnClose(s)
  \/ \E s \in SockIds, m \in Fragments : OnTranscript(s, m)

SpecTranscript == InitPlayback /\ [][NextTranscript]_vars

\* ---- the start message, for every config, browser and transcriber ----
InitStart ==
  /\ InitState
  /\ useRecorder \in BOOLEAN
  /\ browserOK \in BOOLEAN
  /\ isSafari \in BOOLEAN
  /\ isSafari => browserOK
  /\ config \in AllConfigs
  /\ transcriberConfig \in TranscriberConfigs

NextStart ==
  \/ StartSession
  \/ StartInvalidConfig
  \/ StartUnsupported
  \/ Stop
  \/ \E s \in SockIds : SockOpen(s)
  \/ \E s \in SockIds : OnClose(s)
  \/ \E s \in SockIds : PollOpen(s)
  \/ \E s \in SockIds : MicGranted(s)
  \/ \E s \in SockIds : MicDenied(s)

SpecStart == InitStart /\ [][NextStart]_vars

\* ---- capture with the microphone toggle, in one session ----
InitCapture == Init /\ browserOK /\ useRecorder

NextCapture ==
  \/ StartSession
  \/ Stop
  \/ ToggleActive
  \/ \E s \in SockIds : SockOpen(s)
  \/ \E s \in SockIds : OnClose(s)
  \/ \E s \in SockIds : OnReady(s)
  \/ \E s \in SockIds : PollOpen(s)
  \/ \E s \in SockIds : MicGranted(s)
  \/ \E r \in SockIds : RecorderData(r)
  \/ \E e \in BagToSet(enc), ok \in BOOLEAN : EncodeDone(e, ok)

SpecCapture == InitCapture /\ [][NextCapture]_vars

\* ======================= properties =======================

HasType(m, types) == \E i \in DOMAIN m : m[i].type \in types

\* C1: on every channel the start-variant message is sent at most once and
\* no websocket_audio message is sent on the channel before it.
C1_StartOnceBeforeAudio ==
  \A s \in SockIds :
    LET m == ws[s].sent IN
      /\ Cardinality({i \in DOMAIN m : m[i].type \in StartTypes}) <= 1
      /\ \A i \in DOMAIN m :
           m[i].type = "websocket_audio" =>
             \E j \in 1..(i - 1) : m[j].type \in StartTypes

\* C2 as stated: the start-variant message is sent on a channel only after
\* websocket_ready was received on that channel.
C2_StartAfterReady ==
  \A s \in SockIds : HasType(ws[s].sent, StartTypes) => ws[s].gotReady

\* C2 amended: start() goes past its wait loop, and the start-variant message
\* is sent, only after the channel's readyState has become OPEN.
C2_StartAfterOpen ==
  \A s \in SockIds :
    (call[s].pc \in {"mic", "done", "aborted"} \/ HasType(ws[s].sent, StartTypes))
      => ws[s].everOpen

C2_Witness ==
  \E s \in SockIds :
    /\ HasType(ws[s].sent, StartTypes)
    /\ ws[s].everOpen
    /\ ~ws[s].gotReady

\* C7: at most one channel is connecting or open at any time.
C7_OneLiveChannel == Cardinality({s \in SockIds : Live(s)}) <= 1

\* C8: a call of stop() while status is idle throws nothing, leaves status
\* idle, sends no message and closes no channel.
C8_StopIdempotent ==
  [][(status = "idle" /\ Stop) =>
       (~thrown' /\ status' = "idle" /\ ws' = ws)]_vars

\* C9: an error event of a channel changes neither status nor error; the
\* close event of a channel that had an error event sets status to error and
\* populates error, the close event of a channel without one sets status to
\* idle and leaves error as it was.
C9_ErrorAtClose ==
  [][\A s \in SockIds :
       /\ (~call[s].err /\ call'[s].err) =>
            (status' = status /\ error' = error)
       /\ (ws[s].readyState \in {"CONNECTING", "OPEN", "CLOSING"}
           /\ ws'[s].readyState = "CLOSED") =>
            IF call[s].err
            THEN status' = "error" /\ error' # NoError
            ELSE status' = "idle" /\ error' = error]_vars

C9_Witness ==
  \E s \in SockIds :
    /\ ws[s].readyState = "CLOSED"
    /\ ws[s].everOpen
    /\ call[s].err
    /\ status = "error"
    /\ error = "See console for error details"

\* C10: once status is error, only a call of start() (which sets connecting)
\* or of stop() changes status: no inbound message and no close event does.
C10_ErrorTerminal ==
  [][(status = "error" /\ status' \notin {"error", "connecting"}) => Stop]_vars

\* ---- playback ----
ActiveTasks == {t \in tasks : t.stage \in {"decoding", "playing"}}
PlayingChunks == {t.chunk : t \in {u \in tasks : u.stage = "playing"}}
FinishedChunks == Range(played) \ PlayingChunks
Increasing(q) == \A i, j \in DOMAIN q : i < j => q[i] < q[j]
IsPrefix(p, q) == Len(p) <= Len(q) /\ \A i \in DOMAIN p : p[i] = q[i]

\* C3: at most one chunk is being decoded or played at any time, chunks start
\* playing in arrival order, and while a chunk is decoded or played every
\* chunk that arrived before it has finished playing (or was discarded by the
\* flush of stop() or of a close event).
C3_FifoSinglePlayback ==
  /\ Cardinality(ActiveTasks) <= 1
  /\ Increasing(played)
  /\ \A t \in ActiveTasks :
       \A c \in 1..(t.chunk - 1) : c \in FinishedChunks \cup flushed

C3_Witness ==
  /\ played = <<1, 2, 3>>
  /\ flushed = {}
  /\ \E t \in tasks : t.chunk = 3 /\ t.stage = "playing"

\* C4: currentSpeaker is set to user only when no received chunk is waiting
\* in the queue.
C4_UserOnlyWhenDrained ==
  [][(currentSpeaker' = "user" /\ currentSpeaker # "user")
       => audioQueue = <<>>]_vars

\* every received chunk is in exactly one place: waiting in the queue, being
\* decoded (or failed to decode), started playing, or flushed
C5_Partition ==
  LET waiting == {t \in tasks : t.stage # "playing"} IN
    /\ Increasing(audioQueue)
    /\ Increasing(played)
    /\ Range(audioQueue) \cup {t.chunk : t \in waiting} \cup Range(played)
         \cup flushed = 1..nIn
    /\ Len(audioQueue) + Cardinality(waiting) + Len(played)
         + Cardinality(flushed) = nIn

\* C5: no received chunk is dropped or duplicated; while active stays false
\* no playback is started and the queue only grows at its tail (unless stop()
\* or a close event flushes it); the step that sets active to true starts the
\* oldest queued chunk, if no playback is in progress, and keeps the others
\* in their order.
C5_BacklogKept ==
  /\ []C5_Partition
  /\ [][/\ (~active /\ ~active') =>
            /\ \A t \in tasks' \ tasks : t.stage # "decoding"
            /\ \/ IsPrefix(audioQueue, audioQueue')
               \/ audioQueue' = <<>> /\ Range(audioQueue) \subseteq flushed'
        /\ (~active /\ active') =>
            IF ~processing /\ audioQueue # <<>>
            THEN /\ audioQueue' = Tail(audioQueue)
                 /\ \E t \in tasks' \ tasks :
                      t.chunk = Head(audioQueue) /\ t.stage = "decoding"
            ELSE audioQueue' = audioQueue /\ ActiveTasks' = ActiveTasks]_vars

C5_Witness ==
  /\ active
  /\ nToggle = 2
  /\ audioQueue = <<2>>
  /\ \E t \in tasks : t.chunk = 1 /\ t.stage = "playing" /\ t.cq = <<2>>

\* ---- transcript ----
RunStarts(fs) == {i \in DOMAIN fs : i = 1 \/ fs[i].sender # fs[i - 1].sender}
RunEnd(fs, i) ==
  CHOOSE j \in i..Len(fs) :
    /\ \A k \in (i + 1)..j : k \notin RunStarts(fs)
    /\ j = Len(fs) \/ j + 1 \in RunStarts(fs)
NthStart(fs, k) ==
  CHOOSE i \in RunStarts(fs) : Cardinality({j \in RunStarts(fs) : j <= i}) = k
RECURSIVE JoinTexts(_, _, _)
JoinTexts(fs, i, j) ==
  IF i = j THEN fs[i].text ELSE JoinTexts(fs, i, j - 1) \o " " \o fs[j].text
MergedRuns(fs) ==
  [k \in 1..Cardinality(RunStarts(fs)) |->
     [sender |-> fs[NthStart(fs, k)].sender,
      text |-> JoinTexts(fs, NthStart(fs, k), RunEnd(fs, NthStart(fs, k)))]]

\* C6: the transcript has one entry per maximal run of adjacent same-sender
\* fragments, in arrival order, whose text is the run's texts joined by single
\* spaces; a fragment either extends the last entry only or appends one entry.
C6_TranscriptMerge ==
  /\ [](transcripts = MergedRuns(frags))
  /\ [][frags' # frags =>
          LET m == frags'[Len(frags')]
              n == Len(transcripts)
          IN \/ transcripts' = Append(transcripts, m)
             \/ /\ n > 0
                /\ Len(transcripts') = n
                /\ \A k \in 1..(n - 1) : transcripts'[k] = transcripts[k]
                /\ transcripts'[n] =
                     [sender |-> transcripts[n].sender,
                      text |-> transcripts[n].text \o " " \o m.text]]_vars

C6_Witness ==
  /\ frags = <<[sender |-> "user", text |-> "hi"],
               [sender |-> "user", text |-> "there"],
               [sender |-> "agent", text |-> "hi"]>>
  /\ transcripts = <<[sender |-> "user", text |-> "hi there"],
                     [sender |-> "agent", text |-> "hi"]>>

\* ---- microphone denial ----
\* C11: when getUserMedia is rejected during start(), status becomes error
\* with error populated and the channel that start() opened is no longer
\* connecting or open; no start-variant or audio message is sent on that
\* channel, and status does not become connected while the denial's error is
\* still in place (a new start() clears it).
C11_MicDenialTearsDown ==
  [][/\ \A s \in SockIds :
          MicDenied(s) =>
            /\ status' = "error"
            /\ error' = "Microphone access denied"
            /\ ~Live(s)'
            /\ ~HasType(ws'[s].sent, StartTypes \cup {"websocket_audio"})
     /\ (status # "connected" /\ status' = "connected")
          => error # "Microphone access denied"]_vars

\* ---- the start message ----
\* C12: a start message sent for a config that has all four of
\* transcriberConfig, agentConfig, synthesizerConfig and vocodeConfig is
\* websocket_start; a start message sent for a config that lacks any of the
\* four is websocket_audio_config_start.
C12_VariantSelection ==
  \A s \in SockIds : \A i \in DOMAIN ws[s].sent :
    LET m == ws[s].sent[i] IN
      m.type \in StartTypes =>
        /\ (\A k \in FullKeys : k \in config) => m.type = "websocket_start"
        /\ (\E k \in FullKeys : k \notin config)
             => m.type = "websocket_audio_config_start"

C12_Witness ==
  /\ config = FullKeys \ {"agentConfig"}
  /\ \E s \in SockIds : HasType(ws[s].sent, {"websocket_audio_config_start"})

\* C13: on Safari with a transcriber_deepgram transcriber every sent
\* websocket_start carries downsampling 2; for every other browser and
\* transcriber it carries the configured downsampling, which building the
\* message leaves as it was configured.
C13_SafariDownsampling ==
  /\ [](\A s \in SockIds : \A i \in DOMAIN ws[s].sent :
          LET m == ws[s].sent[i] IN
            m.type = "websocket_start" =>
              m.data = IF isSafari /\ transcriberConfig.type = "transcriber_deepgram"
                       THEN 2 ELSE transcriberConfig.downsampling)
  /\ [][/\ transcriberConfig'.type = transcriberConfig.type
        /\ ~(isSafari /\ transcriberConfig.type = "transcriber_deepgram")
             => transcriberConfig' = transcriberConfig]_vars

C13_Witness ==
  /\ isSafari
  /\ transcriberConfig.type = "transcriber_deepgram"
  /\ \E s \in SockIds : \E i \in DOMAIN ws[s].sent :
       ws[s].sent[i].type = "websocket_start" /\ ws[s].sent[i].data = 2

\* ---- capture ----
\* C14: while status is connected and active is false, a chunk the recorder
\* emits is handed to no listener (nothing is encoded or sent for it), and
\* toggleActive() leaves a recording recorder recording.
C14_InactiveDetaches ==
  [][/\ (status = "connected" /\ ~active /\ nCap' > nCap) => enc' = enc
     /\ ToggleActive =>
          \A r \in SockIds :
            rec[r].state = "recording" => rec'[r].state = "recording"]_vars

\* the step appends a websocket_stop message to the messages sent on s
StopSent(s) ==
  /\ Len(ws'[s].sent) > Len(ws[s].sent)
  /\ ws'[s].sent[Len(ws'[s].sent)].type = "websocket_stop"

\* websocket_stop is sent on a channel only while the channel is open, the
\* handler that sends it closes the channel, and it is the last message sent
\* on its channel
StopIsLast ==
  /\ [](\A s \in SockIds : \A i \in DOMAIN ws[s].sent :
          ws[s].sent[i].type = "websocket_stop" =>
            i = Len(ws[s].sent) /\ ws[s].readyState \in {"CLOSING", "CLOSED"})
  /\ [][\A s \in SockIds :
          StopSent(s) =>
            /\ ws[s].readyState = "OPEN"
            /\ ws'[s].readyState = "CLOSING"
            /\ Len(ws'[s].sent) = Len(ws[s].sent) + 1]_vars

\* C15: stop() with an open channel sends websocket_stop on it and then
\* closes it; websocket_stop is sent on a channel only while the channel is
\* open, and it is the last message sent on its channel (no websocket_audio
\* of a pending or final chunk and no second websocket_stop follows it).
C15_StopThenClose ==
  /\ StopIsLast
  /\ [][(Stop /\ socket # 0 /\ ws[socket].readyState = "OPEN") =>
          StopSent(socket)]_vars

\* C16: once the close event of a channel has been handled, and once stop()
\* has run, no recorder is in the recording state.
C16_CloseStopsCapture ==
  [][(\/ Stop
      \/ \E s \in SockIds :
           ws[s].readyState # "CLOSED" /\ ws'[s].readyState = "CLOSED")
       => \A r \in SockIds : rec'[r].state # "recording"]_vars

\* C17: a failed decodeAudioData changes neither status nor error, and after
\* it the processing flag is eventually cleared, so that the chunks that
\* arrive later are played.
C17_DecodeFailureRecovers ==
  /\ [][\A t \in tasks : DecodeFail(t) => status' = status /\ error' = error]_vars
  /\ (\E t \in tasks : t.stage = "failed") ~> ~processing

\* C18: stop() and the close event of a channel leave the queue empty and
\* currentSpeaker none, and the end of a chunk that was playing when they ran
\* (currentSpeaker is none while it still plays) leaves currentSpeaker none.
C18_FlushKeepsSpeakerNone ==
  [][/\ (\/ Stop
         \/ \E s \in SockIds :
              ws[s].readyState # "CLOSED" /\ ws'[s].readyState = "CLOSED")
          => audioQueue' = <<>> /\ currentSpeaker' = "none"
     /\ \A t \in tasks :
          (PlaybackEnded(t) /\ currentSpeaker = "none")
            => currentSpeaker' = "none"]_vars

\* a websocket_audio message of a time slice; time slices are numbered in
\* the order the recorder emits them
IsSlice(m) == m.type = "websocket_audio" /\ m.data # FinalChunk

\* C19: on every channel the websocket_audio messages are sent in the order
\* in which the recorder emitted their chunks.
C19_CaptureOrderKept ==
  \A s \in SockIds : \A i, j \in DOMAIN ws[s].sent :
    (i < j /\ IsSlice(ws[s].sent[i]) /\ IsSlice(ws[s].sent[j]))
      => ws[s].sent[i].data <= ws[s].sent[j].data

\* C20: at most one listener that sends on a given channel is attached to a
\* recorder, and no time slice is sent twice on a channel.
C20_OneListenerPerChannel ==
  /\ \A r, s \in SockIds : rec[r].listeners[s] <= 1
  /\ \A s \in SockIds : \A i, j \in DOMAIN ws[s].sent :
       (i < j /\ IsSlice(ws[s].sent[i])) => ws[s].sent[i] # ws[s].sent[j]

====
